---- MODULE Spec2Model ----
(***************************************************************************)
(* Model of server.js, the WHOOP proxy: the OAuth connect/callback flow,   *)
(* the credential scopes (req.session.tokens and globalTokens), whoopGet   *)
(* (authenticated GET with refresh-on-401 and a 3-attempt retry loop) and  *)
(* the list routes (handleList, fetchPage, fetchAuto, trimRecord).         *)
(* The summary route (five calls under Promise.all), trimRecord and the    *)
(* date normalizers have specifications of their own further down.        *)
(*                                                                         *)
(* Every `await` of the source is a suspension point, so each action below *)
(* is the synchronous stretch of code between two awaits.                  *)
(***************************************************************************)
EXTENDS Integers, Sequences, FiniteSets, TLC

(***************************************************************************)
(* Bounds of the model.                                                    *)
(***************************************************************************)
\* token sets the upstream token endpoint hands out in one behaviour
MaxIssued == 2

\* page requests (fetchPage calls) one list request may make in the model
MaxPages == 2

\* browser sessions (clients that return the express-session cookie)
Sessions == {"s1"}

\* the session of a request that carries no session cookie (the GPT caller):
\* express-session gives every such request a fresh session, which no later
\* request sees again
Anon == "anon"

Clients == Sessions \cup {Anon}

\* concurrent whoopGet calls
Calls == {"k1"}

\* tokens Math.random() may produce for req.session.oauth_state; 0 is undefined
OAuthStates == {1}

\* values of the callback's `state` query parameter: absent, a generated token,
\* a token no connect flow generated
QueryStates == {0, 1, 2}

(***************************************************************************)
(* Program constants.                                                      *)
(***************************************************************************)
WHOOP_PAGE_MAX == 25

\* let desired = Infinity: larger than any count of records the model reaches
Infinity == 1000000

\* for (let attempt = 0; attempt < 3; attempt++)
MaxAttempts == 3

\* HTTP statuses the upstream resource endpoints answer with
Statuses == {200, 401, 403, 500}

IsOk(status) == status >= 200 /\ status <= 299

(***************************************************************************)
(* Token sets.  A token set is the JSON object of the token endpoint; a    *)
(* missing member is 0.  NoTokens is null / undefined.                     *)
(***************************************************************************)
NoTokens == [isNull |-> TRUE, access_token |-> 0, refresh_token |-> 0]

TokenSet(a, r) == [isNull |-> FALSE, access_token |-> a, refresh_token |-> r]

\* the token sets the token endpoint may answer with when `n` were issued before:
\* complete, without refresh_token, without access_token
FreshTokenSets(n) == {TokenSet(n + 1, n + 1), TokenSet(n + 1, 0), TokenSet(0, n + 1)}

\* a session as express-session creates it
NoSession == [oauth_state |-> 0, tokens |-> NoTokens]

(***************************************************************************)
(* Upstream JSON bodies.  A cursor is a string, "" is absent/null.         *)
(***************************************************************************)
Cursors == {"c1"}

\* body of a singleton resource (profile, body measurement): no records array
ObjectJson == [isArray |-> FALSE, records |-> <<>>, nextToken |-> "", next_token |-> ""]

\* an upstream record: odd ids carry allow-listed fields and one more, even
\* ids carry no allow-listed field
Record(id) ==
    IF id % 2 = 1
    THEN [id |-> id, score |-> 50, user_id |-> 7]
    ELSE [user_id |-> 7, note |-> id]

\* the objects a sequence of record ids stands for
Records(ids) == [i \in 1..Len(ids) |-> Record(ids[i])]

\* records of the page behind cursor `cur`, by id: `len` records numbered by
\* position
PageRecords(cur, len) ==
    LET base == IF cur = "" THEN 0 ELSE IF cur = "c1" THEN 100 ELSE 200
    IN  [i \in 1..len |-> base + i]

\* lengths of the pages the upstream may hold
PageLens == {0, 10, 25}

\* the bodies the upstream may hold behind cursor `cur`: a records array with
\* or without a cursor in nextToken, a cursor under the name next_token, a body
\* without records array
PageBodies(cur) ==
    {[isArray |-> TRUE, records |-> PageRecords(cur, len), nextToken |-> nt, next_token |-> ""] :
        len \in PageLens, nt \in Cursors \cup {""}}
    \cup {[isArray |-> TRUE, records |-> PageRecords(cur, 10), nextToken |-> "", next_token |-> "c1"],
          ObjectJson}

Upstreams ==
    {[cur \in Cursors \cup {""} |-> IF cur = "" THEN first ELSE second] :
        first \in PageBodies(""),
        second \in {b \in PageBodies("c1") :
                       /\ b.next_token = "" /\ b.isArray /\ b.records # <<>>
                       /\ b.nextToken # "" => Len(b.records) < WHOOP_PAGE_MAX}}

VARIABLES
    globalTokens,   \* let globalTokens = null
    session,        \* req.session of each browser session: oauth_state, tokens
    issued,         \* number of token sets the token endpoint has issued
    cb,             \* the GET /oauth/callback request (one at a time)
    call,           \* whoopGet invocations
    upstream,       \* the upstream's pages, by cursor
    list,           \* the handleList request
    summary,        \* the GET /me/summary request
    pure            \* an application of a pure helper: its argument and result

vars == <<globalTokens, session, issued, cb, call, upstream, list, summary, pure>>

\* no helper is being applied
NoPure == [op |-> "none"]

(***************************************************************************)
(* whoopGet                                                                *)
(***************************************************************************)
NoResult == [kind |-> "none", error |-> "", status |-> 0]
NoBody == [seq |-> 0]

\* an instant as toISOString prints it, or what a normalizer returned instead
NoInstant ==
    [kind |-> "empty", y |-> 0, m |-> 0, d |-> 0, hh |-> 0, mi |-> 0, ss |-> 0, ms |-> 0]

NoUrl ==
    [paged |-> FALSE, base |-> "", start |-> NoInstant, end |-> NoInstant,
     limit |-> 0, nextToken |-> ""]

IdleCall ==
    [pc |-> "idle", sid |-> "s1", url |-> NoUrl, attempt |-> 0, tokens |-> NoTokens,
     r |-> 0, body |-> NoBody, result |-> NoResult,
     nGets |-> 0, bearer |-> 0, nRefresh |-> 0, n5xx |-> 0, refreshed0 |-> FALSE,
     sent |-> 0]

\* faulty variant: the process-wide scope is consulted before the session
ResolveTokens_GlobalFirst(s) ==
    IF ~globalTokens.isNull THEN globalTokens ELSE session[s].tokens

\* let tokens = req.session?.tokens || globalTokens
ResolveTokens(s) ==
    IF ~session[s].tokens.isNull THEN session[s].tokens ELSE globalTokens

\* doFetch(accessToken): one GET leaves, carrying the bearer token
DoFetch(cl, accessToken) ==
    [cl EXCEPT !.nGets = @ + 1, !.bearer = accessToken]

\* entry of whoopGet up to the first await (lines 151-165)
StartCall(s, url) ==
    LET tokens == ResolveTokens(s)
        cl == [IdleCall EXCEPT !.sid = s, !.url = url, !.tokens = tokens]
    IN  IF tokens.isNull \/ tokens.access_token = 0
        THEN [cl EXCEPT !.pc = "done",
                        !.result = [kind |-> "error", error |-> "NotConnected", status |-> 0]]
        ELSE [DoFetch(cl, tokens.access_token) EXCEPT !.pc = "get"]

\* faulty variant: the catch gives up one attempt late (attempt === 3)
Catch_OffByOne(cl, err) ==
    IF cl.attempt = MaxAttempts
    THEN [cl EXCEPT !.pc = "done",
                    !.result = [kind |-> "error", error |-> err, status |-> 0]]
    ELSE [cl EXCEPT !.pc = "catch_wait"]

\* catch (err) { if (attempt === 2) throw err; await sleep } (lines 180-183)
Catch(cl, err) ==
    IF cl.attempt = MaxAttempts - 1
    THEN [cl EXCEPT !.pc = "done",
                    !.result = [kind |-> "error", error |-> err, status |-> 0]]
    ELSE [cl EXCEPT !.pc = "catch_wait"]

\* faulty variant: the budget is off by one (attempt < 3)
MayRetry_OffByOne(cl) == cl.attempt < MaxAttempts

\* the retry budget for a >=500 response: attempt < 2
MayRetry(cl) == cl.attempt < MaxAttempts - 1

\* faulty variant: every status from 400 up is retried (r.status >= 400)
AfterResponse_Retry4xx(cl) ==
    IF cl.r >= 400 /\ MayRetry(cl)
    THEN [cl EXCEPT !.pc = "retry_wait"]
    ELSE IF ~IsOk(cl.r)
         THEN [cl EXCEPT !.pc = "done",
                         !.result = [kind |-> "error", error |-> "Upstream", status |-> cl.r]]
         ELSE [cl EXCEPT !.pc = "done",
                         !.result = [kind |-> "ok", error |-> "", status |-> cl.r]]

\* lines 175-190, once r holds the response to report or retry
AfterResponse(cl) ==
    IF cl.r >= 500 /\ MayRetry(cl)
    THEN [cl EXCEPT !.pc = "retry_wait"]
    ELSE IF ~IsOk(cl.r)
         THEN [cl EXCEPT !.pc = "done",
                         !.result = [kind |-> "error", error |-> "Upstream", status |-> cl.r]]
         ELSE [cl EXCEPT !.pc = "done",
                         !.result = [kind |-> "ok", error |-> "", status |-> cl.r]]

\* r = await fetch(...): the response; body.seq tells which GET of the call
\* it answers
Receive(cl, status) ==
    [cl EXCEPT !.r = status,
               !.n5xx = IF status >= 500 THEN @ + 1 ELSE @,
               !.body = IF IsOk(status) THEN [seq |-> cl.nGets] ELSE cl.body]

\* return r.json(): the JSON the upstream holds for the call's URL
Json(cl) == IF cl.url.paged THEN upstream[cl.url.nextToken] ELSE ObjectJson

\* faulty variant: no grant is sent while another call's grant is in flight
BeginRefresh_SingleFlight(cl) ==
    IF cl.tokens.refresh_token = 0
    THEN Catch(cl, "MissingRefreshToken")
    ELSE IF \E o \in DOMAIN call : call[o].pc = "refresh"
    THEN Catch(cl, "RefreshFailed")
    ELSE [cl EXCEPT !.pc = "refresh", !.nRefresh = @ + 1,
                    !.sent = cl.tokens.refresh_token]

\* refreshTokens up to its fetch: throws without a refresh token, else POSTs the grant
\* (sent: the refresh token of the latest grant request)
BeginRefresh(cl) ==
    IF cl.tokens.refresh_token = 0
    THEN Catch(cl, "MissingRefreshToken")
    ELSE [cl EXCEPT !.pc = "refresh", !.nRefresh = @ + 1,
                    !.sent = cl.tokens.refresh_token]

\* faulty variant: every 4xx status is taken for an expired token
GetResponse_RefreshOn4xx(c, status) ==
    /\ call[c].pc = "get"
    /\ LET cl == Receive(call[c], status)
       IN  call' = [call EXCEPT ![c] = IF status >= 400 /\ status < 500 THEN BeginRefresh(cl)
                                       ELSE AfterResponse(cl)]
    /\ UNCHANGED <<globalTokens, session, issued, cb, upstream, list, summary, pure>>

\* line 165 resumes with a response
GetResponse(c, status) ==
    /\ call[c].pc = "get"
    /\ LET cl == Receive(call[c], status)
       IN  call' = [call EXCEPT ![c] = IF status = 401 THEN BeginRefresh(cl)
                                       ELSE AfterResponse(cl)]
    /\ UNCHANGED <<globalTokens, session, issued, cb, upstream, list, summary, pure>>

\* a fetch of the loop body rejects (transport error): lines 165, 143, 172
FetchFails(c) ==
    /\ call[c].pc \in {"get", "refresh", "reget"}
    /\ call' = [call EXCEPT ![c] = Catch(call[c], "Network")]
    /\ UNCHANGED <<globalTokens, session, issued, cb, upstream, list, summary, pure>>

\* faulty variant: a rejected refresh grant drops the process-wide token set
RefreshRejected_DropsTokens(c) ==
    /\ call[c].pc = "refresh"
    /\ call' = [call EXCEPT ![c] = Catch(call[c], "RefreshFailed")]
    /\ globalTokens' = NoTokens
    /\ UNCHANGED <<session, issued, cb, upstream, list, summary, pure>>

\* the token endpoint rejects the refresh grant: throw new Error(`Refresh failed`)
RefreshRejected(c) ==
    /\ call[c].pc = "refresh"
    /\ call' = [call EXCEPT ![c] = Catch(call[c], "RefreshFailed")]
    /\ UNCHANGED <<globalTokens, session, issued, cb, upstream, list, summary, pure>>

\* the token endpoint accepts the grant: lines 169-172
RefreshAccepted(c, newTokens) ==
    /\ call[c].pc = "refresh"
    /\ issued < MaxIssued
    /\ newTokens \in FreshTokenSets(issued)
    /\ issued' = issued + 1
    /\ session' = [session EXCEPT ![call[c].sid].tokens = newTokens]
    /\ globalTokens' = newTokens
    /\ call' = [call EXCEPT ![c] =
                  [DoFetch([call[c] EXCEPT !.tokens = newTokens], newTokens.access_token)
                     EXCEPT !.pc = "reget",
                            !.refreshed0 = @ \/ call[c].attempt = 0]]
    /\ UNCHANGED <<cb, upstream, list, summary, pure>>

\* line 172 resumes with a response
RegetResponse(c, status) ==
    /\ call[c].pc = "reget"
    /\ call' = [call EXCEPT ![c] = AfterResponse(Receive(call[c], status))]
    /\ UNCHANGED <<globalTokens, session, issued, cb, upstream, list, summary, pure>>

\* the backoff timer of line 176 or 182 fires: attempt++, next iteration issues its GET
Wake(c) ==
    /\ call[c].pc \in {"retry_wait", "catch_wait"}
    /\ call' = [call EXCEPT ![c] =
                  [DoFetch([call[c] EXCEPT !.attempt = @ + 1], call[c].tokens.access_token)
                     EXCEPT !.pc = "get"]]
    /\ UNCHANGED <<globalTokens, session, issued, cb, upstream, list, summary, pure>>

WhoopGetStep(c) ==
    \/ \E status \in Statuses : GetResponse(c, status)
    \/ FetchFails(c)
    \/ RefreshRejected(c)
    \/ \E t \in FreshTokenSets(issued) : RefreshAccepted(c, t)
    \/ \E status \in Statuses : RegetResponse(c, status)
    \/ Wake(c)

(***************************************************************************)
(* Single-resource routes: /profile/basic, /measurement/body,              *)
(* /today/recovery.  One whoopGet, then res.json(data) or a 500.           *)
(***************************************************************************)
\* res.json(data), or res.status(500).json({ error: e.message })
RouteReply(cl) ==
    IF cl.result.kind = "ok"
    THEN [status |-> 200, seq |-> cl.body.seq]
    ELSE [status |-> 500, seq |-> 0]

SimpleRoute(c, s) ==
    /\ call[c].pc = "idle"
    /\ call' = [call EXCEPT ![c] = StartCall(s, NoUrl)]
    /\ UNCHANGED <<globalTokens, session, issued, cb, upstream, list, summary, pure>>

\* the response is sent; the session of a cookie-less request is gone with it
SimpleRouteRespond(c) ==
    /\ call[c].pc = "done"
    /\ call' = [call EXCEPT ![c] = IdleCall]
    /\ session' = IF call[c].sid = Anon THEN [session EXCEPT ![Anon] = NoSession]
                  ELSE session
    /\ UNCHANGED <<globalTokens, issued, cb, upstream, list, summary, pure>>

(***************************************************************************)
(* OAuth: GET /connect/whoop and GET /oauth/callback                       *)
(***************************************************************************)
IdleCb == [pc |-> "idle", sid |-> "s1", status |-> 0, text |-> ""]

\* req.session.oauth_state = state; redirect to the authorization endpoint
Connect(s, state) ==
    /\ session' = [session EXCEPT ![s].oauth_state = state]
    /\ UNCHANGED <<globalTokens, issued, cb, call, upstream, list, summary, pure>>

\* faulty variant: the comparison is skipped when the callback carries no state
BadState_SkipsAbsent(s, state) == state # 0 /\ state # session[s].oauth_state

\* state !== req.session.oauth_state
BadState(s, state) == state # session[s].oauth_state

\* the callback up to its first await (lines 102-115)
Callback(s, hasCode, state) ==
    /\ cb.pc = "idle"
    /\ cb' = IF ~hasCode
             THEN [pc |-> "idle", sid |-> s, status |-> 400, text |-> "Missing code"]
             ELSE IF BadState(s, state)
                  THEN [pc |-> "idle", sid |-> s, status |-> 400, text |-> "Bad state"]
                  ELSE [pc |-> "exchange", sid |-> s, status |-> 0, text |-> ""]
    /\ UNCHANGED <<globalTokens, session, issued, call, upstream, list, summary, pure>>

\* the token endpoint answers non-2xx, or the fetch rejects
ExchangeFails(text) ==
    /\ cb.pc = "exchange"
    /\ cb' = [cb EXCEPT !.pc = "idle", !.status = 500, !.text = text]
    /\ UNCHANGED <<globalTokens, session, issued, call, upstream, list, summary, pure>>

\* the token endpoint answers with a token set: lines 120-125
ExchangeSucceeds(tokens) ==
    /\ cb.pc = "exchange"
    /\ issued < MaxIssued
    /\ tokens \in FreshTokenSets(issued)
    /\ issued' = issued + 1
    /\ session' = [session EXCEPT ![cb.sid].tokens = tokens]
    /\ globalTokens' = tokens
    /\ cb' = [cb EXCEPT !.pc = "idle", !.status = 200, !.text = "connected"]
    /\ UNCHANGED <<call, upstream, list, summary, pure>>

(***************************************************************************)
(* Date normalizers.  A date input is its shape and its digits: "none" is  *)
(* the empty string, "Y" / "YM" / "YMD" match the three regular            *)
(* expressions, "iso" is any other text new Date() parses, "junk" any      *)
(* other text it does not.                                                 *)
(***************************************************************************)
DateInput(shape, y, m, d) == [shape |-> shape, y |-> y, m |-> m, d |-> d]

Instant(y, m, d, hh, mi, ss, ms) ==
    [kind |-> "instant", y |-> y, m |-> m, d |-> d, hh |-> hh, mi |-> mi, ss |-> ss, ms |-> ms]

InvalidDate == [NoInstant EXCEPT !.kind = "error"]

IsLeap(y) == (y % 4 = 0 /\ y % 100 # 0) \/ y % 400 = 0

DaysInMonth(y, m) ==
    IF m = 2 THEN (IF IsLeap(y) THEN 29 ELSE 28)
    ELSE IF m \in {4, 6, 9, 11} THEN 30 ELSE 31

\* Date.UTC reads a year from 0 to 99 as 1900 + year
UTCYear(y) == IF y >= 0 /\ y <= 99 THEN 1900 + y ELSE y

\* new Date(Date.UTC(year, monthIndex, 1) - 1): the last millisecond before
\* the first day of the 0-based month monthIndex, which may exceed 11
LastInstantBefore(year, monthIndex) ==
    LET yy == UTCYear(year) + (monthIndex \div 12)
        mm == monthIndex % 12
    IN  IF mm = 0
        THEN Instant(yy - 1, 12, 31, 23, 59, 59, 999)
        ELSE Instant(yy, mm, DaysInMonth(yy, mm), 23, 59, 59, 999)

normalizeStartISO(s) ==
    CASE s.shape = "none" -> NoInstant
      [] s.shape = "Y"    -> Instant(s.y, 1, 1, 0, 0, 0, 0)
      [] s.shape = "YM"   -> Instant(s.y, s.m, 1, 0, 0, 0, 0)
      [] s.shape = "YMD"  -> Instant(s.y, s.m, s.d, 0, 0, 0, 0)
      [] s.shape = "iso"  -> Instant(s.y, s.m, s.d, 12, 0, 0, 0)
      [] OTHER            -> InvalidDate

normalizeEndISO(s) ==
    CASE s.shape = "none" -> NoInstant
      [] s.shape = "Y"    -> LastInstantBefore(s.y + 1, 0)
      [] s.shape = "YM"   -> LastInstantBefore(s.y, s.m)
      [] s.shape = "YMD"  -> Instant(s.y, s.m, s.d, 23, 59, 59, 999)
      [] s.shape = "iso"  -> Instant(s.y, s.m, s.d, 12, 0, 0, 0)
      [] OTHER            -> InvalidDate

(***************************************************************************)
(* Helpers for paging and trimming                                         *)
(***************************************************************************)
Min(a, b) == IF a < b THEN a ELSE b
Max(a, b) == IF a > b THEN a ELSE b

\* rangeUrl: a parameter is set only when its value is truthy
rangeUrl(base, start, end, limit, nextToken) ==
    [paged |-> TRUE, base |-> base, start |-> start, end |-> end,
     limit |-> limit, nextToken |-> nextToken]

AllowList ==
    {"id", "start", "end", "date", "createdAt", "updatedAt", "score", "sleep_score",
     "recovery_score", "strain", "sport", "duration", "kilojoules", "calories",
     "resting_heart_rate", "heart_rate_variability_rmssd", "sleep_efficiency"}

\* the value of a member that is present but undefined, and the value null
Undefined == -1
Null == -2

\* faulty variant: the allow-listed members are returned even when there are none
trimRecord_KeepOnly(rec) ==
    [k \in {f \in (DOMAIN rec) \cap AllowList : rec[f] # Undefined} |-> rec[k]]

\* if (rec && rec[k] !== undefined) keep[k] = rec[k]; keep if it has a key, else rec
trimRecord(rec) ==
    LET keep == [k \in {f \in (DOMAIN rec) \cap AllowList : rec[f] # Undefined} |-> rec[k]]
    IN  IF DOMAIN keep # {} THEN keep ELSE rec

maybeTrim(arr, trim) ==
    IF ~trim THEN arr ELSE [i \in 1..Len(arr) |-> trimRecord(arr[i])]

\* faulty variant: the cursor of the page is dropped
PageOf_DropsCursor(json) ==
    [records |-> IF json.isArray THEN json.records ELSE <<>>, nextToken |-> ""]

\* what fetchPage returns for the JSON whoopGet resolved with (lines 272-275)
PageOf(json) ==
    [records |-> IF json.isArray THEN json.records ELSE <<>>,
     nextToken |-> IF json.nextToken # "" THEN json.nextToken ELSE json.next_token]

\* perPage = Math.min(25, Math.max(1, Math.floor(perPage || 25)))
ClampPerPage(perPage) ==
    Min(WHOOP_PAGE_MAX, Max(1, IF perPage = 0 THEN WHOOP_PAGE_MAX ELSE perPage))

\* faulty variant: the loop stops one record late (out.length <= desiredCount)
LoopContinues_OffByOne(outLen, desiredCount, nextToken) ==
    outLen <= desiredCount /\ (outLen = 0 \/ nextToken # "")

\* while (out.length < desiredCount && (out.length === 0 || nextToken !== null))
LoopContinues(outLen, desiredCount, nextToken) ==
    outLen < desiredCount /\ (outLen = 0 \/ nextToken # "")

\* faulty variant: the overshoot of the last page is not cut off
Slice_Whole(out, desiredCount) == out

\* out.slice(0, desiredCount)
Slice(out, desiredCount) == SubSeq(out, 1, Min(Len(out), desiredCount))

(***************************************************************************)
(* handleList                                                              *)
(***************************************************************************)
\* Number(limit) in halves (limit=0.5 is 1), or NaN for a missing or
\* non-numeric limit
Limit(halves) == [finite |-> TRUE, halves |-> halves]
LimitNaN == [finite |-> FALSE, halves |-> 0]

LimitInputs == {LimitNaN, Limit(1), Limit(20), Limit(60)}

DateInputs ==
    {DateInput("none", 0, 0, 0), DateInput("YM", 2024, 1, 0), DateInput("junk", 0, 0, 0)}

\* the query strings of the model: trim=false is tried with limit=10 only
Queries ==
    {q \in [start : DateInputs, end : DateInputs, limit : LimitInputs,
            nextToken : Cursors \cup {""}, trim : BOOLEAN, all : BOOLEAN] :
        ~q.trim => q.limit = Limit(20)}

Floor(limit) == limit.halves \div 2

\* lines 349-353
Desired(q) ==
    IF q.all THEN Infinity
    ELSE IF q.limit.finite /\ q.limit.halves > 0 THEN Floor(q.limit) ELSE WHOOP_PAGE_MAX

\* line 356
PerPage(q) ==
    Min(WHOOP_PAGE_MAX,
        IF q.limit.finite THEN Max(1, Min(WHOOP_PAGE_MAX, Floor(q.limit)))
        ELSE WHOOP_PAGE_MAX)

\* line 359
SinglePage(q) == ~q.all /\ Desired(q) <= WHOOP_PAGE_MAX /\ q.nextToken = ""

NoQuery ==
    [start |-> DateInput("none", 0, 0, 0), end |-> DateInput("none", 0, 0, 0),
     limit |-> LimitNaN, nextToken |-> "", trim |-> TRUE, all |-> FALSE]

NoResponse == [status |-> 0, records |-> <<>>, nextToken |-> "", error |-> ""]
NoReturn == [returned |-> FALSE, records |-> <<>>, nextToken |-> ""]

\* asked: the cursors of the page requests made so far; got: how many of
\* them were answered with a page; served: the records, by id, that the
\* earlier requests of a resumed listing were answered with
IdleList ==
    [pc |-> "idle", sid |-> "s1", q |-> NoQuery, startISO |-> NoInstant, endISO |-> NoInstant,
     desiredCount |-> 0, perPage |-> 0, nextToken |-> "", out |-> <<>>,
     asked |-> <<>>, got |-> 0,
     ret |-> NoReturn, response |-> NoResponse, served |-> <<>>]

\* res.json({records, nextToken})
Respond(l, records, nextToken) ==
    [l EXCEPT !.pc = "done",
              !.response = [status |-> 200, records |-> records,
                            nextToken |-> nextToken, error |-> ""]]

\* res.status(status).json({ error })
RespondError(l, status, error) ==
    [l EXCEPT !.pc = "done",
              !.response = [status |-> status, records |-> <<>>,
                            nextToken |-> "", error |-> error]]

\* faulty variant: what was collected before the failure is answered with status 200
PageFailure_Partial(l, error) == Respond(l, maybeTrim(Records(l.out), l.q.trim), l.nextToken)

\* a rejected fetchPage is caught by handleList alone: catch (e) of line 378
PageFailure(l, error) == RespondError(l, 500, error)

\* fetchAuto returns: { records: out.slice(0, desiredCount), nextToken }, and
\* handleList answers with it (lines 374-377)
FetchAutoReturn(l) ==
    LET records == Slice(l.out, l.desiredCount)
    IN  [Respond(l, maybeTrim(Records(records), l.q.trim), l.nextToken)
           EXCEPT !.ret = [returned |-> TRUE, records |-> records, nextToken |-> l.nextToken]]

\* the page request of one loop iteration (lines 285-287)
AutoPageUrl(l) == rangeUrl(l.q.base, l.startISO, l.endISO, l.perPage, l.nextToken)

\* the top of fetchAuto's loop: another page request is due
AutoContinues(l) == LoopContinues(Len(l.out), l.desiredCount, l.nextToken)

\* GET /list/recovery, /list/sleep, /list/workout, /list/cycle up to the first await
HandleList(s, base, q) ==
    /\ list.pc = "idle"
    /\ call["k1"].pc = "idle"
    /\ LET startISO == normalizeStartISO(q.start)
           endISO == normalizeEndISO(q.end)
           l0 == [IdleList EXCEPT !.sid = s, !.q = [base |-> base] @@ q]
           l1 == [l0 EXCEPT !.startISO = startISO, !.endISO = endISO,
                            !.desiredCount = Desired(q),
                            !.perPage = ClampPerPage(PerPage(q)),
                            !.nextToken = q.nextToken]
       IN  IF q.start.shape = "none" \/ q.end.shape = "none"
           THEN /\ list' = RespondError(l0, 400, "Provide start & end")
                /\ call' = call
           ELSE IF startISO.kind = "error"
           THEN /\ list' = RespondError(l0, 500, "Invalid start date")
                /\ call' = call
           ELSE IF endISO.kind = "error"
           THEN /\ list' = RespondError(l0, 500, "Invalid end date")
                /\ call' = call
           ELSE IF SinglePage(q)
           THEN /\ list' = [l1 EXCEPT !.pc = "single", !.asked = <<"">>]
                /\ call' = [call EXCEPT !["k1"] =
                              StartCall(s, rangeUrl(base, startISO, endISO,
                                                    Min(Desired(q), WHOOP_PAGE_MAX), ""))]
           ELSE IF AutoContinues(l1)
           THEN /\ list' = [l1 EXCEPT !.pc = "auto", !.asked = <<l1.nextToken>>]
                /\ call' = [call EXCEPT !["k1"] = StartCall(s, AutoPageUrl(l1))]
           ELSE /\ list' = FetchAutoReturn(l1)
                /\ call' = call
    /\ UNCHANGED <<globalTokens, session, issued, cb, upstream, summary, pure>>

\* the page of the single-page path arrives: lines 360-362
SinglePageArrives ==
    /\ list.pc = "single"
    /\ call["k1"].pc = "done"
    /\ call["k1"].result.kind = "ok"
    /\ LET page == PageOf(Json(call["k1"]))
           l1 == [list EXCEPT !.got = @ + 1]
       IN  list' = Respond(l1, maybeTrim(Records(page.records), list.q.trim), page.nextToken)
    /\ call' = [call EXCEPT !["k1"] = IdleCall]
    /\ UNCHANGED <<globalTokens, session, issued, cb, upstream, summary, pure>>

\* a page of fetchAuto arrives: lines 288-292, and the next iteration's request
AutoPageArrives ==
    /\ list.pc = "auto"
    /\ call["k1"].pc = "done"
    /\ call["k1"].result.kind = "ok"
    /\ LET page == PageOf(Json(call["k1"]))
           l1 == [list EXCEPT !.out = @ \o page.records,
                              !.nextToken = page.nextToken,
                              !.got = @ + 1]
       IN  IF page.nextToken # "" /\ AutoContinues(l1)
           THEN /\ Len(list.asked) < MaxPages
                /\ list' = [l1 EXCEPT !.asked = Append(@, l1.nextToken)]
                /\ call' = [call EXCEPT !["k1"] = StartCall(list.sid, AutoPageUrl(l1))]
           ELSE /\ list' = FetchAutoReturn(l1)
                /\ call' = [call EXCEPT !["k1"] = IdleCall]
    /\ UNCHANGED <<globalTokens, session, issued, cb, upstream, summary, pure>>

\* whoopGet threw: fetchPage and fetchAuto let it through to handleList's catch
PageFails ==
    /\ list.pc \in {"single", "auto"}
    /\ call["k1"].pc = "done"
    /\ call["k1"].result.kind = "error"
    /\ list' = PageFailure(list, call["k1"].result.error)
    /\ call' = [call EXCEPT !["k1"] = IdleCall]
    /\ UNCHANGED <<globalTokens, session, issued, cb, upstream, summary, pure>>

\* the records, by id, of the answer to the list request
AnsweredIds(l) ==
    IF l.ret.returned THEN l.ret.records ELSE PageOf(upstream[l.asked[1]]).records

\* the caller asks again with the nextToken of the answer and the same start,
\* end and limit: handleList up to the first await for that query, which
\* carries a cursor and so goes to fetchAuto (lines 341-372)
ResumeList ==
    /\ list.pc = "done"
    /\ list.response.status = 200
    /\ list.response.nextToken # ""
    /\ call["k1"].pc = "idle"
    /\ LET q == [list.q EXCEPT !.nextToken = list.response.nextToken]
           l0 == [IdleList EXCEPT !.sid = list.sid, !.q = q,
                                  !.served = list.served \o AnsweredIds(list)]
           l1 == [l0 EXCEPT !.startISO = normalizeStartISO(q.start),
                            !.endISO = normalizeEndISO(q.end),
                            !.desiredCount = Desired(q),
                            !.perPage = ClampPerPage(PerPage(q)),
                            !.nextToken = q.nextToken]
       IN  /\ ~SinglePage(q)
           /\ IF AutoContinues(l1)
              THEN /\ list' = [l1 EXCEPT !.pc = "auto", !.asked = <<l1.nextToken>>]
                   /\ call' = [call EXCEPT !["k1"] = StartCall(list.sid, AutoPageUrl(l1))]
              ELSE /\ list' = FetchAutoReturn(l1)
                   /\ call' = call
    /\ UNCHANGED <<globalTokens, session, issued, cb, upstream, summary, pure>>

(***************************************************************************)
(* fetchAuto as a function of the upstream, when every page fetch          *)
(* succeeds: `fuel` bounds the pages; done is FALSE when they run out.     *)
(***************************************************************************)
RECURSIVE FetchAutoLoop(_, _, _, _, _)
FetchAutoLoop(up, desiredCount, out, nextToken, fuel) ==
    IF ~LoopContinues(Len(out), desiredCount, nextToken)
    THEN [done |-> TRUE, records |-> Slice(out, desiredCount), nextToken |-> nextToken]
    ELSE IF fuel = 0
    THEN [done |-> FALSE, records |-> <<>>, nextToken |-> ""]
    ELSE LET page == PageOf(up[nextToken])
         IN  IF page.nextToken = ""
             THEN [done |-> TRUE, records |-> Slice(out \o page.records, desiredCount),
                   nextToken |-> ""]
             ELSE FetchAutoLoop(up, desiredCount, out \o page.records, page.nextToken, fuel - 1)

fetchAuto(up, desiredCount, firstNextToken) ==
    FetchAutoLoop(up, desiredCount, <<>>, firstNextToken, MaxPages)

\* the upstream of a behaviour that requests no page
NoUpstream == [cur \in Cursors \cup {""} |-> ObjectJson]

(***************************************************************************)
(* GET /me/summary: five whoopGet calls under Promise.all                  *)
(***************************************************************************)
\* the five promises of the array, by the name their result is answered under
SummaryCalls == {"profile", "body", "cycles", "recovery", "sleep"}

\* now, and 30 days before it, as toISOString prints them
SummaryNow == Instant(2024, 1, 31, 12, 0, 0, 0)
SummaryStart == Instant(2024, 1, 1, 12, 0, 0, 0)

SummaryUrl(c) ==
    IF c \in {"profile", "body"} THEN NoUrl
    ELSE rangeUrl(c, SummaryStart, SummaryNow, 0, "")

\* no member of the response body
Absent == 0

NoResults == [c \in SummaryCalls |-> Absent]

IdleSummary == [pc |-> "idle", status |-> 0, results |-> NoResults, error |-> ""]

\* faulty variant: the results at hand are answered along with the error
SummaryFailure_Partial(error) ==
    [pc |-> "done", status |-> 500,
     results |-> [c \in SummaryCalls |->
                     IF call[c].pc = "done" /\ call[c].result.kind = "ok"
                     THEN call[c].body.seq ELSE Absent],
     error |-> error]

\* catch (e) { res.status(500).json({ error: e.message }) }
SummaryFailure(error) ==
    [pc |-> "done", status |-> 500, results |-> NoResults, error |-> error]

\* res.json({ profile, body, cycles, recovery, sleep })
SummarySuccess ==
    [pc |-> "done", status |-> 200,
     results |-> [c \in SummaryCalls |-> call[c].body.seq], error |-> ""]

\* the handler up to its await: every whoopGet runs to its first await, in
\* array order, before Promise.all is awaited (lines 317-325)
Summary(s) ==
    /\ summary.pc = "idle"
    /\ call' = [c \in SummaryCalls |-> StartCall(s, SummaryUrl(c))]
    /\ summary' = [summary EXCEPT !.pc = "join"]
    /\ UNCHANGED <<globalTokens, session, issued, cb, upstream, list, pure>>

\* Promise.all rejects with the first rejection; the calls still in flight go on
SummaryRejects ==
    /\ summary.pc = "join"
    /\ \E c \in SummaryCalls :
          /\ call[c].pc = "done" /\ call[c].result.kind = "error"
          /\ summary' = SummaryFailure(call[c].result.error)
    /\ UNCHANGED <<globalTokens, session, issued, cb, call, upstream, list, pure>>

\* Promise.all fulfils once every call has returned
SummaryFulfils ==
    /\ summary.pc = "join"
    /\ \A c \in SummaryCalls : call[c].pc = "done" /\ call[c].result.kind = "ok"
    /\ summary' = SummarySuccess
    /\ UNCHANGED <<globalTokens, session, issued, cb, call, upstream, list, pure>>

(***************************************************************************)
(* Spec: the OAuth flow and the single-resource routes.                    *)
(***************************************************************************)
Init ==
    /\ globalTokens = NoTokens
    /\ session = [s \in Clients |-> NoSession]
    /\ issued = 0
    /\ cb = IdleCb
    /\ call = [c \in Calls |-> IdleCall]
    /\ upstream = NoUpstream
    /\ list = IdleList
    /\ summary = IdleSummary
    /\ pure = NoPure

Next ==
    \/ \E s \in Sessions, state \in OAuthStates : Connect(s, state)
    \/ \E s \in Sessions, hasCode \in BOOLEAN, state \in QueryStates :
          Callback(s, hasCode, state)
    \/ \E text \in {"Token exchange failed", "OAuth error"} : ExchangeFails(text)
    \/ \E t \in FreshTokenSets(issued) : ExchangeSucceeds(t)
    \/ \E c \in Calls, s \in Clients : SimpleRoute(c, s)
    \/ \E c \in Calls : SimpleRouteRespond(c)
    \/ \E c \in Calls : WhoopGetStep(c)

Spec == Init /\ [][Next]_vars

\* every fetch is answered or rejected and every backoff timer fires
SpecFair == Spec /\ \A c \in Calls : WF_vars(WhoopGetStep(c))

(***************************************************************************)
(* SpecList: one list request against a fixed upstream, in a process whose *)
(* session s1 has completed the OAuth flow (or in which nobody has).       *)
(***************************************************************************)
Bases == {"recovery"}

InitList ==
    /\ \E t \in {NoTokens, TokenSet(1, 1)} :
          /\ globalTokens = t
          /\ session = [s \in Clients |-> IF s = "s1" THEN [NoSession EXCEPT !.tokens = t]
                                          ELSE NoSession]
    /\ issued = 1
    /\ cb = IdleCb
    /\ call = [c \in Calls |-> IdleCall]
    /\ upstream \in Upstreams
    /\ list = IdleList
    /\ summary = IdleSummary
    /\ pure = NoPure

NextList ==
    \/ \E base \in Bases, q \in Queries : HandleList("s1", base, q)
    \/ SinglePageArrives
    \/ AutoPageArrives
    \/ PageFails
    \/ WhoopGetStep("k1")

SpecList == InitList /\ [][NextList]_vars

(***************************************************************************)
(* SpecSummary: one summary request; the upstream answers 200 or 500.      *)
(***************************************************************************)
SummaryStatuses == {200, 500}

InitSummary ==
    /\ \E t \in {NoTokens, TokenSet(1, 1)} :
          /\ globalTokens = t
          /\ session = [s \in Clients |-> IF s = "s1" THEN [NoSession EXCEPT !.tokens = t]
                                          ELSE NoSession]
    /\ issued = 1
    /\ cb = IdleCb
    /\ call = [c \in SummaryCalls |-> IdleCall]
    /\ upstream = NoUpstream
    /\ list = IdleList
    /\ summary = IdleSummary
    /\ pure = NoPure

NextSummary ==
    \/ Summary("s1")
    \/ SummaryRejects
    \/ SummaryFulfils
    \/ \E c \in SummaryCalls, status \in SummaryStatuses : GetResponse(c, status)
    \/ \E c \in SummaryCalls : Wake(c)

SpecSummary == InitSummary /\ [][NextSummary]_vars

(***************************************************************************)
(* SpecTrim: trimRecord applied to one record.                             *)
(***************************************************************************)
\* member names of the records tried: three of the allow-list, two outside it
TrimFields == {"id", "score", "sleep_efficiency", "user_id", "note"}

\* member values of the records tried
TrimValues == {Undefined, Null, 5}

\* the records tried: every subset of the names, every choice of values
TrimInputs == UNION {[F -> TrimValues] : F \in SUBSET TrimFields}

\* the process at rest, no request in flight
Quiet ==
    /\ globalTokens = NoTokens
    /\ session = [s \in Clients |-> NoSession]
    /\ issued = 0
    /\ cb = IdleCb
    /\ call = [c \in Calls |-> IdleCall]
    /\ upstream = NoUpstream
    /\ list = IdleList
    /\ summary = IdleSummary

InitTrim ==
    /\ Quiet
    /\ \E rec \in TrimInputs : pure = [op |-> "trimRecord", arg |-> rec, done |-> FALSE, out |-> rec]

ApplyTrim ==
    /\ pure.op = "trimRecord" /\ ~pure.done
    /\ pure' = [pure EXCEPT !.done = TRUE, !.out = trimRecord(pure.arg)]
    /\ UNCHANGED <<globalTokens, session, issued, cb, call, upstream, list, summary>>

NextTrim == ApplyTrim

SpecTrim == InitTrim /\ [][NextTrim]_vars

(***************************************************************************)
(* SpecDates: a date normalizer applied to one input.                      *)
(***************************************************************************)
\* digits of the inputs tried
DateYears == {50, 99, 2023, 2024, 2100}
DateMonths == {0, 1, 2, 4, 12, 13}
DateDays == {0, 1, 28, 29, 30, 31, 32}

\* the inputs tried: the empty string, YYYY, YYYY-MM, YYYY-MM-DD for all
\* digits above, a full ISO datetime, and text that is no date
DateArgs ==
    {DateInput("none", 0, 0, 0), DateInput("junk", 0, 0, 0), DateInput("iso", 2024, 1, 15)}
    \cup {DateInput("Y", y, 0, 0) : y \in DateYears}
    \cup {DateInput("YM", y, m, 0) : y \in DateYears, m \in DateMonths}
    \cup {DateInput("YMD", y, m, d) : y \in DateYears, m \in DateMonths, d \in DateDays}

InitDates ==
    /\ Quiet
    /\ \E op \in {"normalizeStartISO", "normalizeEndISO"}, s \in DateArgs :
          pure = [op |-> op, arg |-> s, done |-> FALSE, out |-> NoInstant]

ApplyStart ==
    /\ pure.op = "normalizeStartISO" /\ ~pure.done
    /\ pure' = [pure EXCEPT !.done = TRUE, !.out = normalizeStartISO(pure.arg)]
    /\ UNCHANGED <<globalTokens, session, issued, cb, call, upstream, list, summary>>

ApplyEnd ==
    /\ pure.op = "normalizeEndISO" /\ ~pure.done
    /\ pure' = [pure EXCEPT !.done = TRUE, !.out = normalizeEndISO(pure.arg)]
    /\ UNCHANGED <<globalTokens, session, issued, cb, call, upstream, list, summary>>

NextDates == ApplyStart \/ ApplyEnd

SpecDates == InitDates /\ [][NextDates]_vars

(***************************************************************************)
(* SpecPair: two requests of one session to a single-resource route, in a  *)
(* process that holds the token set of an earlier code exchange.           *)
(***************************************************************************)
PairCalls == {"k1", "k2"}

\* the token set of the code exchange; `issued` counts the token sets issued
\* after it
StaleTokens == TokenSet(100, 100)

InitPair ==
    /\ globalTokens = StaleTokens
    /\ session = [s \in Clients |-> IF s = "s1" THEN [NoSession EXCEPT !.tokens = StaleTokens]
                                    ELSE NoSession]
    /\ issued = 0
    /\ cb = IdleCb
    /\ call = [c \in PairCalls |-> IdleCall]
    /\ upstream = NoUpstream
    /\ list = IdleList
    /\ summary = IdleSummary
    /\ pure = NoPure

\* the upstream answers 200, or 401 for a token it takes for expired
PairStatuses == {200, 401}

NextPair ==
    \/ \E c \in PairCalls : SimpleRoute(c, "s1")
    \/ \E c \in PairCalls, status \in PairStatuses : GetResponse(c, status)
    \/ \E c \in PairCalls : RefreshRejected(c)
    \/ \E c \in PairCalls, t \in FreshTokenSets(issued) : RefreshAccepted(c, t)
    \/ \E c \in PairCalls, status \in PairStatuses : RegetResponse(c, status)
    \/ \E c \in PairCalls : Wake(c)

SpecPair == InitPair /\ [][NextPair]_vars

(***************************************************************************)
(* SpecResume: a listing followed through its cursors.  The upstream holds *)
(* three pages in a chain, "" -> c1 -> c2; every page request is answered  *)
(* 200.                                                                    *)
(***************************************************************************)
\* lengths of the pages of the chain (the per-page limit asked is 25)
ChainLens == {5, 10, 25}

ChainPage(cur, len, next) ==
    [isArray |-> TRUE, records |-> PageRecords(cur, len), nextToken |-> next, next_token |-> ""]

ChainUpstreams ==
    {[cur \in {"", "c1", "c2"} |->
         CASE cur = ""   -> ChainPage("", a, "c1")
           [] cur = "c1" -> ChainPage("c1", b, "c2")
           [] OTHER      -> ChainPage("c2", c, "")] :
        a \in ChainLens, b \in ChainLens, c \in ChainLens}

\* no limit (25 records wanted) or limit=30, with or without trimming
ResumeQueries ==
    {q \in Queries : /\ q.start = DateInput("YM", 2024, 1, 0) /\ q.end = q.start
                     /\ q.limit \in {LimitNaN, Limit(60)}
                     /\ q.nextToken = "" /\ ~q.all /\ q.trim}

InitResume ==
    /\ globalTokens = TokenSet(1, 1)
    /\ session = [s \in Clients |-> NoSession]
    /\ issued = 1
    /\ cb = IdleCb
    /\ call = [c \in Calls |-> IdleCall]
    /\ upstream \in ChainUpstreams
    /\ list = IdleList
    /\ summary = IdleSummary
    /\ pure = NoPure

NextResume ==
    \/ \E base \in Bases, q \in ResumeQueries : HandleList(Anon, base, q)
    \/ ResumeList
    \/ SinglePageArrives
    \/ AutoPageArrives
    \/ GetResponse("k1", 200)

SpecResume == InitResume /\ [][NextResume]_vars

(***************************************************************************)
(* Properties of whoopGet                                                  *)
(***************************************************************************)
UpstreamError(status) == [kind |-> "error", error |-> "Upstream", status |-> status]

\* C1 as stated: in a call whose first GET returned 401 and whose refresh
\* succeeded, exactly one refresh grant and exactly one further GET are issued
\* in the whole call, and a 401 to that second GET ends the call with the
\* upstream error for 401.
C1_Original ==
    \A c \in Calls :
        call[c].refreshed0 =>
            /\ call[c].nRefresh = 1
            /\ call[c].nGets = 2
            /\ (call[c].nGets = 2 /\ call[c].pc = "done" /\ call[c].r = 401) =>
                   call[c].result = UpstreamError(401)

\* while the call is still in its first attempt after a successful refresh
C1_FirstAttempt ==
    \A c \in Calls :
        (call[c].refreshed0 /\ call[c].attempt = 0) =>
            /\ call[c].nRefresh = 1
            /\ call[c].nGets = 2
            /\ call[c].bearer = call[c].tokens.access_token
            /\ call[c].pc \in {"reget", "retry_wait", "catch_wait", "done"}
            /\ call[c].pc = "retry_wait" => call[c].r >= 500
            /\ call[c].pc = "done" =>
                   /\ call[c].r < 500
                   /\ call[c].r = 401 => call[c].result = UpstreamError(401)
                   /\ ~IsOk(call[c].r) => call[c].result = UpstreamError(call[c].r)

\* the step in which the first attempt's refresh grant is accepted
C1_RefreshStep ==
    \A c \in Calls :
        (call[c].pc = "refresh" /\ call[c].attempt = 0 /\ call'[c].pc = "reget") =>
            /\ call'[c].tokens # call[c].tokens
            /\ session'[call[c].sid].tokens = call'[c].tokens
            /\ globalTokens' = call'[c].tokens
            /\ call'[c].nGets = call[c].nGets + 1
            /\ call'[c].nRefresh = call[c].nRefresh
            /\ call'[c].bearer = call'[c].tokens.access_token

\* C1 (amended): in a call whose first GET returned 401 and whose refresh
\* succeeded, the first attempt issues exactly one refresh grant, sets the
\* session scope and globalTokens to the new token set and issues exactly one
\* further GET carrying the new access token; the call ends with that GET
\* unless it answers >=500 or fails in transport (only then does the retry
\* loop go on), and if it answers 401 the call fails with the upstream error
\* for 401 without a second refresh or a third GET.
C1_RefreshOnceThenOneGet == [](C1_FirstAttempt) /\ [][C1_RefreshStep]_vars

\* the second GET of a call, sent after a successful refresh, was answered 401
C1_Witness ==
    \E c \in Calls :
        /\ call[c].refreshed0 /\ call[c].attempt = 0 /\ call[c].pc = "done"
        /\ call[c].r = 401 /\ call[c].nGets = 2 /\ call[c].nRefresh = 1
        /\ globalTokens = call[c].tokens

\* C2: in any single whoopGet call the refresh-token grant is attempted at
\* most once, whatever the upstream answers.
C2_AtMostOneRefreshPerCall == \A c \in Calls : call[c].nRefresh <= 1

\* C3: three attempts answered >=500 end the call with the upstream error and
\* no fourth attempt; two >=500 answers and then a 2xx return the body of the
\* third response.
C3_RetryBudget ==
    \A c \in Calls :
        /\ call[c].attempt <= MaxAttempts - 1
        /\ call[c].n5xx <= MaxAttempts
        /\ call[c].n5xx = MaxAttempts =>
               /\ call[c].pc = "done"
               /\ call[c].r >= 500
               /\ call[c].result = UpstreamError(call[c].r)
        /\ (call[c].nRefresh = 0 /\ call[c].n5xx = 3 /\ call[c].pc = "done") =>
               call[c].nGets = 3
        /\ (call[c].nRefresh = 0 /\ call[c].nGets = 3 /\ call[c].n5xx = 2
                /\ IsOk(call[c].r)) =>
               /\ call[c].pc = "done"
               /\ call[c].result.kind = "ok"
               /\ call[c].body.seq = 3
               /\ RouteReply(call[c]) = [status |-> 200, seq |-> 3]

\* three GETs, each answered >=500: the call has failed
C3_Witness ==
    \E c \in Calls :
        /\ call[c].nGets = 3 /\ call[c].n5xx = 3 /\ call[c].nRefresh = 0
        /\ call[c].pc = "done" /\ call[c].result = UpstreamError(500)

\* the step that enters whoopGet
C8_StartStep ==
    \A c \in Calls :
        (call[c].pc = "idle" /\ call'[c].pc # "idle") =>
            LET s == call'[c].sid
                resolved == IF session[s].tokens.isNull THEN globalTokens
                            ELSE session[s].tokens
            IN  IF resolved.isNull \/ resolved.access_token = 0
                THEN /\ call'[c].pc = "done"
                     /\ call'[c].result.error = "NotConnected"
                     /\ call'[c].nGets = 0
                     /\ call'[c].nRefresh = 0
                ELSE /\ call'[c].pc = "get"
                     /\ call'[c].nGets = 1
                     /\ call'[c].bearer = resolved.access_token

\* C8: whoopGet uses the session's token set if the session has one, else
\* globalTokens; without a token set or without access_token it fails as
\* not-connected and sends nothing; otherwise its first GET carries exactly
\* the resolved access_token.
C8_CredentialResolution == [][C8_StartStep]_vars

\* a first GET that carries the session's access token while globalTokens
\* holds another token set
C8_Witness ==
    \E c \in Calls :
        /\ call[c].pc = "get" /\ call[c].nGets = 1
        /\ ~session[call[c].sid].tokens.isNull
        /\ session[call[c].sid].tokens # globalTokens
        /\ call[c].bearer = session[call[c].sid].tokens.access_token
        /\ call[c].bearer # globalTokens.access_token

(***************************************************************************)
(* Properties of the OAuth callback                                        *)
(***************************************************************************)
\* a callback step whose state parameter differs from the session's state
C10_MismatchStep ==
    \A s \in Sessions, hasCode \in BOOLEAN, state \in QueryStates :
        (Callback(s, hasCode, state) /\ state # session[s].oauth_state) =>
            /\ cb'.pc = "idle"
            /\ cb'.status = 400
            /\ globalTokens' = globalTokens
            /\ session' = session
            /\ issued' = issued

\* C10: a callback whose state parameter differs from the state stored in the
\* session is rejected: no token exchange is sent and neither the session
\* token set nor globalTokens changes.
C10_BadStateRejected == [][C10_MismatchStep]_vars

\* a callback with a code was answered "Bad state" in a session that holds a
\* pending OAuth state
C10_Witness ==
    /\ cb.pc = "idle" /\ cb.status = 400 /\ cb.text = "Bad state"
    /\ session[cb.sid].oauth_state # 0

(***************************************************************************)
(* Properties of the list routes                                           *)
(***************************************************************************)
\* the i-th page the list request received
PageGot(i) == PageOf(upstream[list.asked[i]])

\* the concatenation of the first n pages the list request received
RECURSIVE FetchedUpTo(_)
FetchedUpTo(n) == IF n = 0 THEN <<>> ELSE FetchedUpTo(n - 1) \o PageGot(n).records

Fetched == FetchedUpTo(list.got)

\* the request went through fetchAuto
AutoRun == list.pc \in {"auto", "done"} /\ list.response.status # 400
              /\ list.startISO.kind = "instant" /\ list.endISO.kind = "instant"
              /\ ~SinglePage(list.q)

CeilDiv(a, b) == (a + b - 1) \div b

\* C4: fetchAuto returns at most desiredCount records, a prefix in order of
\* the concatenation of the pages it fetched; for desiredCount = 0 it returns
\* no record and requests no page.
C4_AtMostDesiredPrefix ==
    list.ret.returned =>
        /\ Len(list.ret.records) <= list.desiredCount
        /\ Len(list.ret.records) <= Len(Fetched)
        /\ list.ret.records = SubSeq(Fetched, 1, Len(list.ret.records))
        /\ list.desiredCount = 0 => (list.ret.records = <<>> /\ list.asked = <<>>)

\* the last page overshot desiredCount and the overshoot was cut off
C4_Witness ==
    /\ list.ret.returned
    /\ list.desiredCount > 0
    /\ Len(Fetched) > list.desiredCount
    /\ Len(list.ret.records) = list.desiredCount

\* fetchAuto was entered with desiredCount = 0
C4_ZeroReached ==
    list.ret.returned /\ list.desiredCount = 0 /\ list.nextToken # ""

\* C5 as stated: for finite desiredCount >= 1, fetchAuto makes at most
\* ceil(desiredCount / perPage) page requests unless a page with an absent
\* cursor ends it earlier, and then exactly the pages up to that one, for
\* every upstream.
C5_Original ==
    (AutoRun /\ list.desiredCount >= 1 /\ list.desiredCount < Infinity) =>
        /\ \A i \in 1..list.got :
               PageGot(i).nextToken = "" => (i = list.got /\ Len(list.asked) = i)
        /\ Len(list.asked) <= CeilDiv(list.desiredCount, list.perPage)

\* every page received so far that carries a cursor holds at least perPage records
FullPages ==
    \A i \in 1..list.got :
        PageGot(i).nextToken # "" => Len(PageGot(i).records) >= list.perPage

\* C5 (amended): for finite desiredCount >= 1 and perPage in 1..25, fetchAuto
\* stops with the first page whose cursor is absent, and as long as every
\* page that carries a cursor holds at least perPage records it makes at most
\* ceil(desiredCount / perPage) page requests.
C5_PageRequestBound ==
    (AutoRun /\ list.desiredCount >= 1 /\ list.desiredCount < Infinity) =>
        /\ list.perPage \in 1..WHOOP_PAGE_MAX
        /\ \A i \in 1..list.got :
               PageGot(i).nextToken = "" =>
                   (i = list.got /\ Len(list.asked) = i /\ list.pc = "done")
        /\ FullPages => Len(list.asked) <= CeilDiv(list.desiredCount, list.perPage)
        /\ (FullPages /\ list.pc = "auto") =>
               Len(list.out) < list.desiredCount

\* fetchAuto stopped because the count was reached, after exactly
\* ceil(desiredCount / perPage) requests, with a cursor still in hand
C5_Witness ==
    /\ AutoRun /\ list.ret.returned
    /\ list.desiredCount >= 1 /\ list.desiredCount < Infinity
    /\ FullPages
    /\ list.ret.nextToken # ""
    /\ Len(list.asked) = CeilDiv(list.desiredCount, list.perPage)

\* limit=10, no cursor, trim on; the upstream holds two pages of 10 records,
\* the first with a cursor to the second, the second without cursor; the
\* request was answered 200
C6_Scenario ==
    /\ list.pc = "done" /\ list.response.status = 200
    /\ list.q.limit = Limit(20) /\ list.q.nextToken = "" /\ ~list.q.all /\ list.q.trim
    /\ upstream[""] = [isArray |-> TRUE, records |-> PageRecords("", 10),
                       nextToken |-> "c1", next_token |-> ""]
    /\ upstream["c1"] = [isArray |-> TRUE, records |-> PageRecords("c1", 10),
                         nextToken |-> "", next_token |-> ""]

\* the first page's records as the response must show them: the allow-listed
\* fields of a record that has some, the whole record otherwise
C6_TrimmedFirstPage ==
    [i \in 1..10 |-> IF i % 2 = 1 THEN [id |-> i, score |-> 50]
                                  ELSE [user_id |-> 7, note |-> i]]

\* C6 as stated: the scenario is answered with 10 trimmed records and
\* nextToken null.
C6_Original ==
    C6_Scenario =>
        (list.response.records = C6_TrimmedFirstPage /\ list.response.nextToken = "")

\* C6 (amended): the scenario is answered with the 10 trimmed records of the
\* first page and nextToken equal to the first page's cursor (the second page
\* is not requested).
C6_ListLimit10 ==
    C6_Scenario =>
        /\ list.response.records = C6_TrimmedFirstPage
        /\ list.response.nextToken = "c1"
        /\ list.asked = <<"">>

C6_Witness == C6_Scenario

\* C7: the response of handleList's single-page path equals what fetchAuto
\* returns for the same desired count and upstream.
C7_SinglePageEqualsFetchAuto ==
    (list.pc = "done" /\ list.response.status = 200 /\ SinglePage(list.q)) =>
        LET fa == fetchAuto(upstream, list.desiredCount, "")
        IN  fa.done =>
               /\ list.response.records = maybeTrim(Records(fa.records), list.q.trim)
               /\ list.response.nextToken = fa.nextToken

\* the step in which a failed page fetch reaches the list request
C9_FailureStep ==
    (list.pc \in {"single", "auto"} /\ call["k1"].pc = "done"
        /\ call["k1"].result.kind = "error" /\ list' # list) =>
        /\ list'.pc = "done"
        /\ list'.response = [status |-> 500, records |-> <<>>, nextToken |-> "",
                             error |-> call["k1"].result.error]
        /\ ~list'.ret.returned

\* an answer is either an error without records or the return of a run in
\* which every page request was answered
C9_NoPartialAnswer ==
    /\ list.response.status \notin {0, 200} =>
           (list.response.records = <<>> /\ list.response.error # "" /\ ~list.ret.returned)
    /\ (list.pc = "done" /\ list.got < Len(list.asked)) => list.response.status = 500
    /\ list.response.status = 200 => list.got = Len(list.asked)

\* C9: a page fetch that fails inside fetchAuto fails the whole request: no
\* records are returned, whatever was accumulated, and the list route answers
\* 500 with an error body.
C9_PageFailureAborts == [](C9_NoPartialAnswer) /\ [][C9_FailureStep]_vars

\* the second page request failed after the first page had been accumulated
C9_Witness ==
    /\ list.pc = "done" /\ list.response.status = 500
    /\ Len(list.asked) = 2 /\ list.got = 1 /\ Len(list.out) > 0
    /\ list.response.records = <<>>

(***************************************************************************)
(* Properties of the credential scopes                                     *)
(***************************************************************************)
\* the token sets the token endpoint has answered with so far
AllIssued == UNION {FreshTokenSets(n) : n \in 0..(issued - 1)}

\* each scope is empty or holds, as a whole, one token set the token endpoint
\* answered with
C11_WholeTokenSets ==
    /\ globalTokens \in {NoTokens} \cup AllIssued
    /\ \A s \in Clients : session[s].tokens \in {NoTokens} \cup AllIssued

\* a step in which the token endpoint answers with a token set writes it to the
\* session of the request and to globalTokens; every other step, a failed
\* exchange or refresh among them, leaves both scopes alone (the session of a
\* cookie-less request ends with its response)
C11_ScopeStep ==
    /\ issued' # issued =>
           /\ issued' = issued + 1
           /\ globalTokens' \in FreshTokenSets(issued)
           /\ \E s \in Clients :
                  /\ session'[s].tokens = globalTokens'
                  /\ s = (IF cb.pc = "exchange" /\ cb'.pc = "idle" THEN cb.sid
                          ELSE call["k1"].sid)
                  /\ \A o \in Clients \ {s} : session'[o] = session[o]
    /\ issued' = issued =>
           /\ globalTokens' = globalTokens
           /\ \A s \in Sessions : session'[s].tokens = session[s].tokens
           /\ session'[Anon].tokens # session[Anon].tokens =>
                  (session'[Anon] = NoSession /\ call["k1"].pc = "done"
                       /\ call'["k1"].pc = "idle")
    /\ (cb.pc = "exchange" /\ cb'.status = 500) =>
           (globalTokens' = globalTokens /\ session' = session)
    /\ \A c \in Calls :
           (call[c].pc \in {"get", "refresh"} /\ call'[c].pc \in {"catch_wait", "done"}) =>
               (globalTokens' = globalTokens /\ session' = session)

\* C11: each credential scope is absent or equal, as a whole, to one token set
\* a successful exchange or refresh returned; a successful exchange or refresh
\* sets the request's session scope and globalTokens to the same new token
\* set; a failed exchange or refresh changes neither scope.
C11_TokenSetsReplacedWhole == [](C11_WholeTokenSets) /\ [][C11_ScopeStep]_vars

\* a refresh has replaced the token set of the code exchange in both scopes
C11_Witness ==
    \E c \in Calls :
        /\ call[c].pc = "reget" /\ call[c].sid \in Sessions /\ issued = 2
        /\ globalTokens = call[c].tokens
        /\ session[call[c].sid].tokens = globalTokens
        /\ globalTokens \in FreshTokenSets(1)

(***************************************************************************)
(* Properties of the summary route                                         *)
(***************************************************************************)
SummaryFailed == \E c \in SummaryCalls : call[c].pc = "done" /\ call[c].result.kind = "error"

\* the step that starts the five calls starts all of them; the step that
\* answers happens at the join
C12_SummaryStep ==
    /\ (summary.pc = "idle" /\ summary'.pc = "join") =>
           \A c \in SummaryCalls :
               /\ call[c].pc = "idle"
               /\ call'[c].pc \in {"get", "done"}
               /\ call'[c].pc = "get" => call'[c].nGets = 1
    /\ summary'.pc = "done" /\ summary.pc # "done" =>
           /\ summary.pc = "join"
           /\ call' = call
           /\ summary'.status = (IF SummaryFailed THEN 500 ELSE 200)

\* what the summary request answers
C12_SummaryAnswer ==
    /\ summary.pc # "done" => summary.status = 0
    /\ summary.pc = "join" => \A c \in SummaryCalls : call[c].pc # "idle"
    /\ summary.pc = "done" => summary.status \in {200, 500}
    /\ SummaryFailed => summary.status # 200
    /\ summary.status = 500 =>
           /\ SummaryFailed
           /\ summary.error # ""
           /\ \A c \in SummaryCalls : summary.results[c] = Absent
    /\ summary.status = 200 =>
           /\ summary.error = ""
           /\ \A c \in SummaryCalls :
                  /\ call[c].pc = "done" /\ call[c].result.kind = "ok"
                  /\ summary.results[c] # Absent
                  /\ summary.results[c] = call[c].body.seq

\* C12: the summary route starts its five whoopGet calls together and answers
\* at the join: if one of them fails, with status 500, an error body and none
\* of the other results; if all five succeed, with all five results.
C12_SummaryAllOrNothing == [](C12_SummaryAnswer) /\ [][C12_SummaryStep]_vars

\* the request was answered 500 although another of the five calls had returned
C12_Witness ==
    /\ summary.status = 500
    /\ \E c \in SummaryCalls : call[c].pc = "done" /\ call[c].result.kind = "ok"

(***************************************************************************)
(* Properties of trimRecord                                                *)
(***************************************************************************)
\* the allow-listed names under which `rec` has a defined member
DefinedAllowed(rec) == {k \in DOMAIN rec : k \in AllowList /\ rec[k] # Undefined}

\* C13: trimRecord returns exactly the record's defined allow-listed members
\* when there is at least one, the record unchanged when there is none, and
\* never an empty object for a non-empty record.
C13_TrimRecord ==
    (pure.op = "trimRecord" /\ pure.done) =>
        /\ DefinedAllowed(pure.arg) # {} =>
               /\ DOMAIN pure.out = DefinedAllowed(pure.arg)
               /\ \A k \in DOMAIN pure.out : pure.out[k] = pure.arg[k]
        /\ DefinedAllowed(pure.arg) = {} => pure.out = pure.arg
        /\ DOMAIN pure.arg # {} => DOMAIN pure.out # {}

\* a record whose only allow-listed member is undefined came back whole
C13_Witness ==
    /\ pure.op = "trimRecord" /\ pure.done
    /\ "id" \in DOMAIN pure.arg /\ pure.arg["id"] = Undefined
    /\ DefinedAllowed(pure.arg) = {}
    /\ "note" \in DOMAIN pure.arg
    /\ pure.out = pure.arg

(***************************************************************************)
(* Properties of the date normalizers                                      *)
(***************************************************************************)
\* the input names a year, a month or a day of the calendar
RealDate(s) ==
    CASE s.shape = "Y"   -> TRUE
      [] s.shape = "YM"  -> s.m \in 1..12
      [] s.shape = "YMD" -> s.m \in 1..12 /\ s.d \in 1..DaysInMonth(s.y, s.m)
      [] OTHER           -> FALSE

\* the input is not empty and is no date: text of no date shape that does not
\* parse, or a year-month / year-month-day shape that names no real date
Malformed(s) ==
    \/ s.shape = "junk"
    \/ s.shape \in {"YM", "YMD"} /\ ~RealDate(s)

Normalized == pure.op \in {"normalizeStartISO", "normalizeEndISO"} /\ pure.done

\* C14: for every malformed date input, also one of year-month or
\* year-month-day shape that names no real date, both normalizers fail with
\* the invalid-date error instead of returning a timestamp.
C14_MalformedDatesRejected ==
    (Normalized /\ Malformed(pure.arg)) => pure.out = InvalidDate

\* the first and the last millisecond of the year, month or day `s` names
FirstInstant(s) ==
    Instant(s.y, IF s.shape = "Y" THEN 1 ELSE s.m, IF s.shape = "YMD" THEN s.d ELSE 1,
            0, 0, 0, 0)

LastInstant(s) ==
    LET m == IF s.shape = "Y" THEN 12 ELSE s.m
    IN  Instant(s.y, m, IF s.shape = "YMD" THEN s.d ELSE DaysInMonth(s.y, m),
                23, 59, 59, 999)

\* C15: for every valid bare year, year-month or year-month-day input,
\* normalizeStartISO returns the first millisecond of that unit in UTC and
\* normalizeEndISO the last one, month lengths and leap years respected.
C15_FirstAndLastInstant ==
    (Normalized /\ RealDate(pure.arg)) =>
        /\ pure.op = "normalizeStartISO" => pure.out = FirstInstant(pure.arg)
        /\ pure.op = "normalizeEndISO" => pure.out = LastInstant(pure.arg)

(***************************************************************************)
(* Termination of whoopGet                                                 *)
(***************************************************************************)
Running(c) == call[c].pc \notin {"idle", "done"}

\* at most 3 attempts, no wait in the third, and an end with something to report
C16_Bounded ==
    \A c \in Calls :
        /\ call[c].attempt \in 0..(MaxAttempts - 1)
        /\ call[c].nGets <= 2 * MaxAttempts
        /\ call[c].nRefresh <= MaxAttempts
        /\ call[c].attempt = MaxAttempts - 1 =>
               call[c].pc \notin {"retry_wait", "catch_wait"}
        /\ call[c].pc = "done" =>
               \/ /\ call[c].result.kind = "ok"
                  /\ IsOk(call[c].r)
                  /\ call[c].body.seq = call[c].nGets
               \/ /\ call[c].result.kind = "error"
                  /\ call[c].result.error # ""
                  /\ call[c].result.error = "Upstream" =>
                         (call[c].result.status = call[c].r /\ ~IsOk(call[c].r))

\* once the third attempt has ended, the call does nothing more
C16_FinalStep ==
    \A c \in Calls :
        (call[c].pc = "done" /\ call'[c] # call[c]) => call'[c] = IdleCall

\* C16: every whoopGet call makes at most 3 attempts whatever mix of >=500
\* answers, transport errors, 401s and refresh outcomes it meets; if every
\* upstream request is answered or fails, the call ends, with a parsed body or
\* with an error; after the third attempt it neither waits nor retries, and
\* it never ends with nothing to report.
C16_WhoopGetTerminates ==
    /\ [](C16_Bounded)
    /\ [][C16_FinalStep]_vars
    /\ \A c \in Calls : Running(c) ~> (call[c].pc = "done")

\* a call that met a 401 with a refresh, a >=500 answer and a transport
\* error has given up in its third attempt
C16_Witness ==
    \E c \in Calls :
        /\ call[c].pc = "done" /\ call[c].attempt = MaxAttempts - 1
        /\ call[c].nRefresh >= 1 /\ call[c].n5xx >= 1
        /\ call[c].result = [kind |-> "error", error |-> "Network", status |-> 0]

(***************************************************************************)
(* Other upstream errors                                                   *)
(***************************************************************************)
\* a non-2xx status that is neither 401 nor >=500
OtherError(status) == status >= 300 /\ status < 500 /\ status # 401

\* the step in which the first GET of a call is answered with such a status
C17_OtherErrorStep ==
    \A c \in Calls :
        (call[c].pc = "get" /\ call[c].nGets = 1 /\ call[c].attempt = 0
            /\ call'[c] # call[c] /\ OtherError(call'[c].r)) =>
            /\ call'[c].pc = "done"
            /\ call'[c].result = UpstreamError(call'[c].r)
            /\ call'[c].nGets = 1
            /\ call'[c].nRefresh = 0
            /\ call'[c].attempt = 0
            /\ globalTokens' = globalTokens
            /\ session' = session
            /\ issued' = issued

\* a call whose only GET was answered with such a status has ended
C17_OtherErrorEnds ==
    \A c \in Calls :
        (call[c].nGets = 1 /\ OtherError(call[c].r)) =>
            (call[c].pc = "done" /\ call[c].result = UpstreamError(call[c].r)
                 /\ call[c].nRefresh = 0)

\* C17: when the first GET of a call is answered with a non-2xx status that
\* is neither 401 nor >=500, the call fails at once with the upstream error of
\* that status: one GET, no refresh, no backoff wait, both credential scopes
\* unchanged.
C17_OtherErrorsFailAtOnce == [](C17_OtherErrorEnds) /\ [][C17_OtherErrorStep]_vars

\* the first GET was answered 403 and the call has failed with it
C17_Witness ==
    \E c \in Calls :
        /\ call[c].pc = "done" /\ call[c].nGets = 1 /\ call[c].r = 403
        /\ call[c].result = UpstreamError(403)
        /\ ~globalTokens.isNull

(***************************************************************************)
(* Concurrent refreshes                                                    *)
(***************************************************************************)
\* what a call does on a 401 and on an accepted grant, whatever the other
\* call is doing
C18_RefreshStep ==
    \A c \in PairCalls :
        /\ (call[c].pc = "get" /\ call'[c] # call[c] /\ call'[c].r = 401
                /\ call[c].tokens.refresh_token # 0) =>
               /\ call'[c].pc = "refresh"
               /\ call'[c].nRefresh = call[c].nRefresh + 1
               /\ call'[c].sent = call[c].tokens.refresh_token
        /\ (call[c].pc = "refresh" /\ call'[c].pc = "reget") =>
               /\ globalTokens' = call'[c].tokens
               /\ globalTokens' # globalTokens
               /\ call'[c].bearer = call'[c].tokens.access_token
               /\ call'[c].nGets = call[c].nGets + 1
               /\ \A o \in PairCalls \ {c} : call'[o] = call[o]

\* a call's GET after its refresh carries the token set of its own refresh
C18_OwnTokens ==
    \A c \in PairCalls :
        /\ call[c].pc = "reget" => call[c].bearer = call[c].tokens.access_token
        /\ call[c].pc \in {"refresh", "reget"} => call[c].sent # 0

\* C18: two concurrent whoopGet calls that each receive 401 for the same stale
\* token set both send a refresh grant with the same refresh token, so two
\* grants for one stale token are in flight at once; each accepted grant
\* overwrites globalTokens, the later one wins, and the other call still sends
\* its retried GET with its own refreshed token set.
C18_ConcurrentRefreshes == [](C18_OwnTokens) /\ [][C18_RefreshStep]_vars

\* two grants with the same refresh token are in flight at once
C18_Witness ==
    /\ call["k1"].pc = "refresh" /\ call["k2"].pc = "refresh"
    /\ call["k1"].tokens = call["k2"].tokens
    /\ call["k1"].sent = call["k2"].sent
    /\ call["k1"].sent = StaleTokens.refresh_token

\* both grants were accepted: the retried GET of one call is under way with a
\* token set that globalTokens no longer holds
C18_LostUpdateReached ==
    /\ call["k1"].pc = "reget" /\ call["k2"].pc = "reget"
    /\ call["k1"].sent = call["k2"].sent
    /\ call["k1"].tokens # call["k2"].tokens
    /\ globalTokens = call["k2"].tokens
    /\ call["k1"].bearer = call["k1"].tokens.access_token
    /\ call["k1"].bearer # globalTokens.access_token

(***************************************************************************)
(* The pending OAuth state                                                 *)
(***************************************************************************)
\* a callback step that goes on to the token exchange
C19_ExchangeStep ==
    \A s \in Sessions, hasCode \in BOOLEAN, state \in QueryStates :
        (Callback(s, hasCode, state) /\ cb'.pc = "exchange") =>
            /\ hasCode
            /\ session[s].oauth_state # 0
            /\ state = session[s].oauth_state

\* C19: a callback with a code leads to a token exchange only if a connect
\* start in the same session created a pending OAuth state and the callback's
\* state equals it; in a session without connect start every callback, also
\* one without state parameter, is rejected without token exchange.
C19_ExchangeOnlyAfterConnect == [][C19_ExchangeStep]_vars

(***************************************************************************)
(* Resuming a listing                                                      *)
(***************************************************************************)
\* the upstream's records in order: the pages along the cursors from `cur`
RECURSIVE ChainFrom(_, _)
ChainFrom(cur, fuel) ==
    LET page == PageOf(upstream[cur])
    IN  IF page.nextToken = "" \/ fuel = 0 THEN page.records
        ELSE page.records \o ChainFrom(page.nextToken, fuel - 1)

UpstreamSeq == ChainFrom("", 3)

IsPrefix(a, b) == Len(a) <= Len(b) /\ a = SubSeq(b, 1, Len(a))

\* C20: resuming with the returned cursor skips nothing: the answers of
\* successive list requests, each started from the nextToken of the one
\* before, concatenate to a gap-free prefix of the upstream's records, also
\* when the last fetched page overshot desiredCount and was cut.
C20_ResumeSkipsNothing ==
    (list.pc = "done" /\ list.response.status = 200) =>
        IsPrefix(list.served \o AnsweredIds(list), UpstreamSeq)

====
